---- MODULE Spec2Model ----
\* Disease detection of BloomAI: the dashboard page (disease-detection/page.tsx),
\* the request it sends, the provider chain of the detect-disease service and the
\* free provider pipeline of app/api/classify/route.ts (image classification,
\* web search, parseSearchResults, JSON response).
\* FlowerSpec is the flower page (page.tsx of the home route) with the
\* classifyFlower operation behind /predict; ConcSpec is POST of route.ts
\* serving several requests at the same time.
EXTENDS Integers, Sequences, FiniteSets, TLC

\* ---------------------------------------------------------------- bounds
\* longest organic_results array a search answers with
MaxSnippets == 3
\* longest classification array the image classifier answers with
MaxHfResults == 1
\* longest text typed into the key field
MaxKeyLen == 1
\* largest weight of an output of the flower model
MaxWeight == 2
\* number of requests the service works on at the same time
NumRequests == 2

\* the divisor of the pixel rescaling
RescaleDivisor == 255

\* ---------------------------------------------------------------- values
\* JavaScript undefined (also an absent property or array element)
UNDEF == "<undefined>"
\* React state null
NULL == "<null>"
\* placeholder of parseSearchResults
NA == "N/A"

\* files the user can put into the file input: a picture, a zero-byte file,
\* a file with an image type whose bytes are no image
Files == {"imgA", "empty", "corrupt"}

\* the files an image decoder accepts
Decodable == {"imgA"}
NoFile == "<nofile>"

\* label (a string) and score (a number, kept as its text) of a classification
\* entry
LabelValues == {"", "Tomato blight"}
ScoreValues == {"0.97"}
\* snippet of an organic result (UNDEF: entry null or without snippet)
SnippetValues == {UNDEF, "", "snipA"}
\* field values of the enhanced provider's structured completion
EnhancedValues == {UNDEF, "", "gen"}

ReportFields == {"diseaseName", "causes", "precautions", "solutions"}

\* a JS object as a function from its keys; JSON.stringify drops the keys whose
\* value is undefined, property access on a missing key gives undefined
Json(obj) == [k \in {f \in DOMAIN obj : obj[f] # UNDEF} |-> obj[k]]
Get(obj, k) == IF k \in DOMAIN obj THEN obj[k] ELSE UNDEF
Truthy(v) == v # UNDEF /\ v # "" /\ v # NULL
EmptyObj == [k \in {} |-> UNDEF]
Range(f) == {f[i] : i \in DOMAIN f}

SeqsUpTo(S, n) == UNION {[1..m -> S] : m \in 0..n}

\* what the user can type into the key field: texts of blanks and key characters
KeyValues == SeqsUpTo({" ", "k"}, MaxKeyLen)
\* String.prototype.trim: leading and trailing blanks removed
RECURSIVE trimStart(_)
trimStart(s) == IF s # <<>> /\ Head(s) = " " THEN trimStart(Tail(s)) ELSE s
RECURSIVE trimEnd(_)
trimEnd(s) == IF s # <<>> /\ s[Len(s)] = " " THEN trimEnd(SubSeq(s, 1, Len(s) - 1)) ELSE s
trim(s) == trimEnd(trimStart(s))
\* arr[i] of a JS array, i counted from 0
At(arr, i) == IF i + 1 \in DOMAIN arr THEN arr[i + 1] ELSE UNDEF

HfResults == SeqsUpTo([label : LabelValues, score : ScoreValues], MaxHfResults)
\* a search answer: undefined, or an object with organic_results
NoSearch == [present |-> FALSE, organic_results |-> <<>>]
SearchAnswers == {NoSearch} \cup
    {[present |-> TRUE, organic_results |-> o] : o \in SeqsUpTo(SnippetValues, MaxSnippets)}
EnhancedAnswers == [ReportFields -> EnhancedValues]

VARIABLES
    \* page state (useState of DiseaseDetection) and the file input element
    diseaseInfo, isPending, imagePreview, geminiKey, showKeyInput, error, fileInput,
    \* the image of the request whose answer diseaseInfo holds
    resultFor,
    \* whether that request sent the api_key field
    resultSentKey,
    \* whether the page aborted its request while a provider call was in flight
    cancelledInCall,
    \* the fetch of handleSubmit: "none", "inflight" (timer armed), "body"
    \* (headers in, timer cleared, body being read), "body_hung"
    fetchState,
    \* multipart form of the request being served
    request,
    \* the service: position, provider calls made so far, outcome and raw
    \* output of the enhanced attempt, locals of POST, the response, the
    \* provider it is from
    \* and the exception the catch block of POST received
    pc, calls, enhancedOutcome, enhancedOutput, classificationResult, diseaseName,
    searchResults, response, source, caught,
    \* flower page (useState of Home), its file input and its fetch
    state, flowerPending, flowerPreview, flowerFile, flowerFetch,
    \* the /predict operation: image, position, configuration flag of the
    \* model, a channel value of the decoded image, the value inference runs
    \* on, the probability vector, the response
    predictRequest, predictPc, modelHasRescaling, pixel, inferenceInput, probabilities,
    predictResponse,
    \* requests served at the same time, each with its position, the
    \* credential its enhanced call used, the locals of its POST and its
    \* response
    reqs, pcs, usedKeys, topResults, diseaseNames, responses

pageVars == <<diseaseInfo, isPending, imagePreview, geminiKey, showKeyInput, error, fileInput,
              resultFor, resultSentKey, cancelledInCall>>
serverVars == <<pc, calls, enhancedOutcome, enhancedOutput, classificationResult, diseaseName,
                searchResults, response, source, caught>>
diseaseVars == <<pageVars, fetchState, request, serverVars>>
flowerServiceVars == <<predictRequest, predictPc, modelHasRescaling, pixel, inferenceInput,
                       probabilities, predictResponse>>
flowerVars == <<state, flowerPending, flowerPreview, flowerFile, flowerFetch,
                flowerServiceVars>>
concVars == <<reqs, pcs, usedKeys, topResults, diseaseNames, responses>>
vars == <<diseaseVars, flowerVars, concVars>>

NoRequest == EmptyObj
NoResponse == [status |-> 0, body |-> EmptyObj]
NoHf == <<>>

\* initialState of the flower page
initialState == [prediction |-> NULL, confidence |-> NULL, error |-> NULL]

Requests == 1..NumRequests

DiseaseInit ==
    /\ diseaseInfo = EmptyObj
    /\ isPending = FALSE
    /\ imagePreview = NoFile
    /\ geminiKey = <<>>
    /\ showKeyInput = FALSE
    /\ error = NULL
    /\ fileInput = NoFile
    /\ resultFor = NoFile
    /\ resultSentKey = FALSE
    /\ cancelledInCall = FALSE
    /\ fetchState = "none"
    /\ request = NoRequest
    /\ pc = "idle"
    /\ calls = <<>>
    /\ enhancedOutcome = "none"
    /\ enhancedOutput = EmptyObj
    /\ classificationResult = NoHf
    /\ diseaseName = UNDEF
    /\ searchResults = NoSearch
    /\ response = NoResponse
    /\ source = "none"
    /\ caught = "none"

\* the flower page and the /predict operation before any request
FlowerStart ==
    /\ state = initialState
    /\ flowerPending = FALSE
    /\ flowerPreview = NoFile
    /\ flowerFile = NoFile
    /\ flowerFetch = "none"
    /\ predictRequest = NoFile
    /\ predictPc = "idle"
    /\ modelHasRescaling \in BOOLEAN
    /\ pixel = 0
    /\ inferenceInput = 0
    /\ probabilities = <<>>
    /\ predictResponse = NoResponse

\* no credential: the empty text
NoKey == <<>>

\* no request has arrived
ConcStart ==
    /\ reqs = [r \in Requests |-> NoRequest]
    /\ pcs = [r \in Requests |-> "idle"]
    /\ usedKeys = [r \in Requests |-> NoKey]
    /\ topResults = [r \in Requests |-> UNDEF]
    /\ diseaseNames = [r \in Requests |-> UNDEF]
    /\ responses = [r \in Requests |-> NoResponse]

Init ==
    /\ DiseaseInit
    /\ FlowerStart
    /\ modelHasRescaling = FALSE
    /\ ConcStart

\* ---------------------------------------------------------------- page

\* onChange of the key input; the input exists while showKeyInput and is
\* disabled while a request is pending
SetGeminiKey ==
    /\ showKeyInput /\ ~isPending
    /\ \E k \in KeyValues : k # geminiKey /\ geminiKey' = k
    /\ UNCHANGED <<diseaseInfo, isPending, imagePreview, showKeyInput, error, fileInput,
                   resultFor, resultSentKey, fetchState, request, serverVars>>
    /\ UNCHANGED cancelledInCall
    /\ UNCHANGED <<flowerVars, concVars>>

\* a file is chosen in the (enabled) file input and its reader finishes
handleFileChange ==
    /\ ~isPending
    /\ \E f \in Files :
        /\ fileInput' = f
        /\ imagePreview' = f
    /\ diseaseInfo' = EmptyObj
    /\ resultFor' = NoFile
    /\ resultSentKey' = FALSE
    /\ error' = NULL
    /\ showKeyInput' = TRUE
    /\ UNCHANGED <<isPending, geminiKey, fetchState, request, serverVars>>
    /\ UNCHANGED cancelledInCall
    /\ UNCHANGED <<flowerVars, concVars>>

\* a file with an image type is dropped on the drop zone: it is put into the
\* file input and the change event runs handleFileChange, also while a request
\* is pending
handleDrop ==
    /\ \E f \in Files :
        /\ fileInput' = f
        /\ imagePreview' = f
    /\ diseaseInfo' = EmptyObj
    /\ resultFor' = NoFile
    /\ resultSentKey' = FALSE
    /\ error' = NULL
    /\ showKeyInput' = TRUE
    /\ UNCHANGED <<isPending, geminiKey, fetchState, request, serverVars>>
    /\ UNCHANGED cancelledInCall
    /\ UNCHANGED <<flowerVars, concVars>>

\* the remove button / "Analyze Another Image"
handleRemoveImage ==
    /\ ~isPending
    /\ imagePreview # NoFile
    /\ imagePreview' = NoFile
    /\ fileInput' = NoFile
    /\ diseaseInfo' = EmptyObj
    /\ resultFor' = NoFile
    /\ resultSentKey' = FALSE
    /\ error' = NULL
    /\ showKeyInput' = FALSE
    /\ UNCHANGED <<isPending, geminiKey, fetchState, request, serverVars>>
    /\ UNCHANGED cancelledInCall
    /\ UNCHANGED <<flowerVars, concVars>>

\* uploadFormData without the trim test
uploadFormData_untrimmed(imageFile, key) ==
    IF key # <<>>
    THEN [image |-> imageFile, api_key |-> key]
    ELSE [image |-> imageFile]

\* the form handleSubmit uploads: the image, and api_key only for a key that
\* is not blank
uploadFormData(imageFile, key) ==
    IF key # <<>> /\ trim(key) # <<>>
    THEN [image |-> imageFile, api_key |-> key]
    ELSE [image |-> imageFile]

\* handleSubmit, rejected by the client-side check
handleSubmitNoImage ==
    /\ imagePreview # NoFile /\ ~isPending
    /\ fileInput \in {NoFile, "empty"}
    /\ error' = "Please select an image to upload."
    /\ UNCHANGED <<diseaseInfo, isPending, imagePreview, geminiKey, showKeyInput, fileInput,
                   resultFor, resultSentKey, fetchState, request, serverVars>>
    /\ UNCHANGED cancelledInCall
    /\ UNCHANGED <<flowerVars, concVars>>

\* handleSubmit with a submit button that stays enabled while a request is
\* pending
handleSubmit_whilePending ==
    /\ imagePreview # NoFile
    /\ fileInput \notin {NoFile, "empty"}
    /\ isPending' = TRUE
    /\ error' = NULL
    /\ diseaseInfo' = EmptyObj
    /\ resultFor' = NoFile
    /\ resultSentKey' = FALSE
    /\ cancelledInCall' = FALSE
    /\ fetchState' = "inflight"
    /\ request' = uploadFormData(fileInput, geminiKey)
    /\ pc' = "received"
    /\ calls' = <<>>
    /\ enhancedOutcome' = "none"
    /\ enhancedOutput' = EmptyObj
    /\ classificationResult' = NoHf
    /\ diseaseName' = UNDEF
    /\ searchResults' = NoSearch
    /\ response' = NoResponse
    /\ source' = "none"
    /\ caught' = "none"
    /\ UNCHANGED <<imagePreview, geminiKey, showKeyInput, fileInput>>
    /\ UNCHANGED <<flowerVars, concVars>>

\* handleSubmit up to the fetch; the service starts on the request (a
\* request the page gave up on is no longer followed)
handleSubmit ==
    /\ imagePreview # NoFile /\ ~isPending
    /\ fileInput \notin {NoFile, "empty"}
    /\ isPending' = TRUE
    /\ error' = NULL
    /\ diseaseInfo' = EmptyObj
    /\ resultFor' = NoFile
    /\ resultSentKey' = FALSE
    /\ cancelledInCall' = FALSE
    /\ fetchState' = "inflight"
    /\ request' = uploadFormData(fileInput, geminiKey)
    /\ pc' = "received"
    /\ calls' = <<>>
    /\ enhancedOutcome' = "none"
    /\ enhancedOutput' = EmptyObj
    /\ classificationResult' = NoHf
    /\ diseaseName' = UNDEF
    /\ searchResults' = NoSearch
    /\ response' = NoResponse
    /\ source' = "none"
    /\ caught' = "none"
    /\ UNCHANGED <<imagePreview, geminiKey, showKeyInput, fileInput>>
    /\ UNCHANGED <<flowerVars, concVars>>

\* ---------------------------------------------------------------- service

\* DetectDisease going to the free provider whatever the form holds
DetectDisease_freeFirst ==
    /\ pc = "received"
    /\ pc' = "free"
    /\ calls' = calls
    /\ UNCHANGED <<pageVars, fetchState, request, enhancedOutcome, enhancedOutput,
                   classificationResult, diseaseName, searchResults, response, source, caught>>
    /\ UNCHANGED <<flowerVars, concVars>>

\* the detect-disease operation takes the multipart form: with an api_key
\* field the enhanced provider is attempted first, without one the free
\* provider
DetectDisease ==
    /\ pc = "received"
    /\ IF "api_key" \in DOMAIN request
       THEN /\ pc' = "enhanced"
            /\ calls' = Append(calls, "enhanced")
       ELSE /\ pc' = "free"
            /\ calls' = calls
    /\ UNCHANGED <<pageVars, fetchState, request, enhancedOutcome, enhancedOutput, classificationResult,
                   diseaseName, searchResults, response, source, caught>>
    /\ UNCHANGED <<flowerVars, concVars>>

\* normalize for the enhanced provider: the four canonical fields, "N/A" for
\* a text field the completion does not supply
NormalizeEnhanced(raw) ==
    [diseaseName |-> raw["diseaseName"],
     causes      |-> IF Truthy(raw["causes"]) THEN raw["causes"] ELSE NA,
     precautions |-> IF Truthy(raw["precautions"]) THEN raw["precautions"] ELSE NA,
     solutions   |-> IF Truthy(raw["solutions"]) THEN raw["solutions"] ELSE NA]

\* the handler returns for a request whose caller has gone: the connection
\* is closed, the response is dropped and the handler's locals are gone
Discarded ==
    /\ request' = NoRequest
    /\ pc' = "idle"
    /\ calls' = <<>>
    /\ enhancedOutcome' = "none"
    /\ enhancedOutput' = EmptyObj
    /\ classificationResult' = NoHf
    /\ diseaseName' = UNDEF
    /\ searchResults' = NoSearch
    /\ response' = NoResponse
    /\ source' = "none"
    /\ caught' = "none"
    /\ UNCHANGED <<pageVars, fetchState>>

\* whether the caller of the request has gone (aborted fetch)
CallerGone == fetchState = "none"

\* EnhancedReturns ending the request with an error when there is no name
EnhancedReturns_surfaces ==
    /\ pc = "enhanced"
    /\ \E raw \in EnhancedAnswers :
        IF CallerGone
        THEN Discarded
        ELSE /\ IF Truthy(raw["diseaseName"])
                THEN /\ enhancedOutput' = raw
                     /\ response' = [status |-> 200, body |-> Json(NormalizeEnhanced(raw))]
                     /\ source' = "enhanced"
                     /\ enhancedOutcome' = "ok"
                ELSE /\ enhancedOutcome' = "normalization"
                     /\ response' = [status |-> 500, body |-> [error |-> "Something went wrong"]]
                     /\ UNCHANGED <<enhancedOutput, source>>
             /\ pc' = "done"
             /\ UNCHANGED <<pageVars, fetchState, request, calls, classificationResult,
                            diseaseName, searchResults, caught>>
    /\ UNCHANGED <<flowerVars, concVars>>

\* the enhanced provider answers; without a name normalization fails and
\* the chain goes on as after a provider failure
EnhancedReturns ==
    /\ pc = "enhanced"
    /\ \E raw \in EnhancedAnswers :
        IF Truthy(raw["diseaseName"])
        THEN IF CallerGone
             THEN Discarded
             ELSE /\ enhancedOutput' = raw
                  /\ response' = [status |-> 200, body |-> Json(NormalizeEnhanced(raw))]
                  /\ source' = "enhanced"
                  /\ enhancedOutcome' = "ok"
                  /\ pc' = "done"
                  /\ UNCHANGED <<pageVars, fetchState, request, calls, classificationResult,
                                 diseaseName, searchResults, caught>>
        ELSE /\ enhancedOutcome' = "normalization"
             /\ pc' = "free"
             /\ UNCHANGED <<enhancedOutput, response, source>>
             /\ UNCHANGED <<pageVars, fetchState, request, calls, classificationResult,
                            diseaseName, searchResults, caught>>
    /\ UNCHANGED <<flowerVars, concVars>>

\* the enhanced provider fails: network error, malformed response, invalid
\* credential
EnhancedFails ==
    /\ pc = "enhanced"
    /\ \E kind \in {"network", "malformed", "invalid_credential"} : enhancedOutcome' = kind
    /\ pc' = "free"
    /\ UNCHANGED <<pageVars, fetchState, request, calls, enhancedOutput, classificationResult, diseaseName,
                   searchResults, response, source, caught>>
    /\ UNCHANGED <<flowerVars, concVars>>

\* the enhanced provider has not answered when its timeout expires
EnhancedTimeout ==
    /\ pc = "enhanced"
    /\ enhancedOutcome' = "timeout"
    /\ pc' = "free"
    /\ UNCHANGED <<pageVars, fetchState, request, calls, enhancedOutput, classificationResult, diseaseName,
                   searchResults, response, source, caught>>
    /\ UNCHANGED <<flowerVars, concVars>>

\* catch block of POST
CatchResponse == [status |-> 500, body |-> [error |-> "Something went wrong"]]

\* POST up to the await of hf.imageClassification
POST ==
    /\ pc = "free"
    /\ IF ~Truthy(Get(request, "image"))
       THEN IF CallerGone
            THEN Discarded
            ELSE /\ response' = [status |-> 400, body |-> [error |-> "No image provided"]]
                 /\ pc' = "done"
                 /\ UNCHANGED <<pageVars, fetchState, request, calls, enhancedOutcome,
                                enhancedOutput, classificationResult, diseaseName,
                                searchResults, source, caught>>
       ELSE /\ pc' = "hf"
            /\ calls' = Append(calls, "hf")
            /\ UNCHANGED <<pageVars, fetchState, request, response, enhancedOutcome,
                           enhancedOutput, classificationResult, diseaseName, searchResults,
                           source, caught>>
    /\ UNCHANGED <<flowerVars, concVars>>

\* imageClassification resolves: topResult = classificationResult[0], reading
\* label of an absent topResult throws into the catch block, otherwise the
\* web search is awaited
HfReturns ==
    /\ pc = "hf"
    /\ \E result \in HfResults :
        IF Len(result) = 0
        THEN IF CallerGone
             THEN Discarded
             ELSE /\ classificationResult' = result
                  /\ caught' = "TypeError"
                  /\ response' = CatchResponse
                  /\ pc' = "done"
                  /\ UNCHANGED <<pageVars, fetchState, request, calls, diseaseName,
                                 enhancedOutcome, enhancedOutput, searchResults, source>>
        ELSE /\ classificationResult' = result
             /\ diseaseName' = result[1].label
             /\ calls' = Append(calls, "search")
             /\ pc' = "search"
             /\ UNCHANGED <<pageVars, fetchState, request, caught, response, enhancedOutcome,
                            enhancedOutput, searchResults, source>>
    /\ UNCHANGED <<flowerVars, concVars>>

\* imageClassification rejects
HfThrows ==
    /\ pc = "hf"
    /\ IF CallerGone
       THEN Discarded
       ELSE /\ caught' = "HfError"
            /\ response' = CatchResponse
            /\ pc' = "done"
            /\ UNCHANGED <<pageVars, fetchState, request, calls, enhancedOutcome,
                           enhancedOutput, classificationResult, diseaseName, searchResults,
                           source>>
    /\ UNCHANGED <<flowerVars, concVars>>

\* imageClassification never settles: the await has no timeout
HfNeverResponds ==
    /\ pc = "hf"
    /\ pc' = "hf_hung"
    /\ UNCHANGED <<pageVars, fetchState, request, calls, enhancedOutcome, enhancedOutput, classificationResult,
                   diseaseName, searchResults, response, source, caught>>
    /\ UNCHANGED <<flowerVars, concVars>>

\* parseSearchResults reading the results one place too far
parseSearchResults_shifted(sr) ==
    [causes      |-> IF Truthy(At(sr.organic_results, 1)) THEN At(sr.organic_results, 1) ELSE NA,
     precautions |-> IF Truthy(At(sr.organic_results, 2)) THEN At(sr.organic_results, 2) ELSE NA,
     solutions   |-> IF Truthy(At(sr.organic_results, 3)) THEN At(sr.organic_results, 3) ELSE NA]

\* snippets of the first three organic results, 'N/A' for a falsy one
parseSearchResults(sr) ==
    [causes      |-> IF Truthy(At(sr.organic_results, 0)) THEN At(sr.organic_results, 0) ELSE NA,
     precautions |-> IF Truthy(At(sr.organic_results, 1)) THEN At(sr.organic_results, 1) ELSE NA,
     solutions   |-> IF Truthy(At(sr.organic_results, 2)) THEN At(sr.organic_results, 2) ELSE NA]

\* ResponseObject with the name left out
ResponseObject_noName(topResult, name, parsed) ==
    [identificationConfidence |-> topResult.score,
     causes                   |-> parsed.causes,
     precautions              |-> parsed.precautions,
     solutions                |-> parsed.solutions]

\* the response object of POST for the top result and the parsed search
ResponseObject(topResult, name, parsed) ==
    [diseaseName              |-> name,
     identificationConfidence |-> topResult.score,
     causes                   |-> parsed.causes,
     precautions              |-> parsed.precautions,
     solutions                |-> parsed.solutions]

\* google_web_search resolves: parse, build the response, NextResponse.json
SearchReturns ==
    /\ pc = "search"
    /\ \E sr \in SearchAnswers :
        IF CallerGone
        THEN Discarded
        ELSE /\ searchResults' = sr
             /\ response' = [status |-> 200,
                             body |-> Json(ResponseObject(classificationResult[1], diseaseName,
                                                          parseSearchResults(sr)))]
             /\ source' = "free"
             /\ pc' = "done"
             /\ UNCHANGED <<pageVars, fetchState, request, calls, enhancedOutcome,
                            enhancedOutput, classificationResult, diseaseName, caught>>
    /\ UNCHANGED <<flowerVars, concVars>>

\* SearchThrows answering with the name found so far next to the error
SearchThrows_partial ==
    /\ pc = "search"
    /\ IF CallerGone
       THEN Discarded
       ELSE /\ caught' = "SearchError"
            /\ response' = [status |-> 500,
                            body |-> [error |-> "Something went wrong",
                                      diseaseName |-> diseaseName]]
            /\ pc' = "done"
            /\ UNCHANGED <<pageVars, fetchState, request, calls, enhancedOutcome,
                           enhancedOutput, classificationResult, diseaseName, searchResults,
                           source>>
    /\ UNCHANGED <<flowerVars, concVars>>

\* google_web_search rejects
SearchThrows ==
    /\ pc = "search"
    /\ IF CallerGone
       THEN Discarded
       ELSE /\ caught' = "SearchError"
            /\ response' = CatchResponse
            /\ pc' = "done"
            /\ UNCHANGED <<pageVars, fetchState, request, calls, enhancedOutcome,
                           enhancedOutput, classificationResult, diseaseName, searchResults,
                           source>>
    /\ UNCHANGED <<flowerVars, concVars>>

\* google_web_search never settles: the await has no timeout
SearchNeverResponds ==
    /\ pc = "search"
    /\ pc' = "search_hung"
    /\ UNCHANGED <<pageVars, fetchState, request, calls, enhancedOutcome, enhancedOutput, classificationResult,
                   diseaseName, searchResults, response, source, caught>>
    /\ UNCHANGED <<flowerVars, concVars>>

\* ---------------------------------------------------------------- page, response

\* message of the Error thrown for a response that is not ok
NotOkMessage(errorData) ==
    IF Truthy(Get(errorData, "detail")) THEN Get(errorData, "detail")
    ELSE "Failed to detect plant disease."

\* the check of handleSubmit on the parsed body
ValidData(data) ==
    /\ Truthy(Get(data, "diseaseName"))
    /\ Truthy(Get(data, "causes"))
    /\ Truthy(Get(data, "precautions"))
    /\ Truthy(Get(data, "solutions"))

\* the fetch promise resolves when the response headers are in; the timer
\* is cleared before the body is read
fetchHeaders ==
    /\ fetchState = "inflight"
    /\ pc = "done"
    /\ fetchState' = "body"
    /\ UNCHANGED <<pageVars, request, serverVars>>
    /\ UNCHANGED <<flowerVars, concVars>>

\* response.json() never settles: the body stalls and no timer is left
fetchBodyNeverCompletes ==
    /\ fetchState = "body"
    /\ fetchState' = "body_hung"
    /\ UNCHANGED <<pageVars, request, serverVars>>
    /\ UNCHANGED <<flowerVars, concVars>>

\* the body of the response has been read: rest of handleSubmit
fetchResolves ==
    /\ fetchState = "body"
    /\ pc = "done"
    /\ IF response.status # 200
       THEN /\ error' = NotOkMessage(response.body)
            /\ UNCHANGED <<diseaseInfo, resultFor, resultSentKey>>
       ELSE IF ~ValidData(response.body)
       THEN /\ error' = "Invalid response from disease detection API."
            /\ UNCHANGED <<diseaseInfo, resultFor, resultSentKey>>
       ELSE /\ diseaseInfo' = [k \in ReportFields |-> response.body[k]]
            /\ resultFor' = request["image"]
            /\ resultSentKey' = ("api_key" \in DOMAIN request)
            /\ error' = error
    /\ isPending' = FALSE
    /\ fetchState' = "none"
    /\ request' = NoRequest
    /\ pc' = "idle"
    /\ calls' = <<>>
    /\ enhancedOutcome' = "none"
    /\ enhancedOutput' = EmptyObj
    /\ classificationResult' = NoHf
    /\ diseaseName' = UNDEF
    /\ searchResults' = NoSearch
    /\ response' = NoResponse
    /\ source' = "none"
    /\ caught' = "none"
    /\ UNCHANGED <<imagePreview, geminiKey, showKeyInput, fileInput>>
    /\ UNCHANGED cancelledInCall
    /\ UNCHANGED <<flowerVars, concVars>>

\* the positions of the service at which it awaits a provider
ProviderCallInFlight == {"enhanced", "hf", "search"}

\* the 60 s timer aborts the fetch: AbortError in the catch block; a response
\* on its way is dropped with the connection
fetchAborts ==
    /\ fetchState = "inflight"
    /\ error' = "Request timed out. Please check your connection and try again."
    /\ isPending' = FALSE
    /\ fetchState' = "none"
    /\ cancelledInCall' = (pc \in ProviderCallInFlight)
    /\ IF pc = "done"
       THEN /\ request' = NoRequest
            /\ pc' = "idle"
            /\ calls' = <<>>
            /\ enhancedOutcome' = "none"
            /\ enhancedOutput' = EmptyObj
            /\ classificationResult' = NoHf
            /\ diseaseName' = UNDEF
            /\ searchResults' = NoSearch
            /\ response' = NoResponse
            /\ source' = "none"
            /\ caught' = "none"
       ELSE UNCHANGED <<request, serverVars>>
    /\ UNCHANGED <<diseaseInfo, imagePreview, geminiKey, showKeyInput, fileInput, resultFor,
                   resultSentKey>>
    /\ UNCHANGED <<flowerVars, concVars>>

\* message of the exception a failed fetch rejects with
ExceptionMessages == {"Failed to fetch"}

\* the fetch rejects because the service cannot be reached: the request never
\* arrives and the catch block shows the message of the exception
fetchRejects ==
    /\ fetchState = "inflight"
    /\ pc = "received"
    /\ \E m \in ExceptionMessages : error' = m
    /\ isPending' = FALSE
    /\ fetchState' = "none"
    /\ request' = NoRequest
    /\ pc' = "idle"
    /\ UNCHANGED <<diseaseInfo, imagePreview, geminiKey, showKeyInput, fileInput, resultFor,
                   resultSentKey, cancelledInCall, calls, enhancedOutcome, enhancedOutput,
                   classificationResult, diseaseName, searchResults, response, source,
                   caught>>
    /\ UNCHANGED <<flowerVars, concVars>>

\* ---------------------------------------------------------------- specification

PageNext ==
    \/ SetGeminiKey
    \/ handleFileChange
    \/ handleDrop
    \/ handleRemoveImage
    \/ handleSubmitNoImage
    \/ handleSubmit
    \/ fetchHeaders
    \/ fetchBodyNeverCompletes
    \/ fetchResolves
    \/ fetchAborts
    \/ fetchRejects

ServiceNext ==
    \/ DetectDisease
    \/ EnhancedReturns
    \/ EnhancedFails
    \/ EnhancedTimeout
    \/ POST
    \/ HfReturns
    \/ HfThrows
    \/ HfNeverResponds
    \/ SearchReturns
    \/ SearchThrows
    \/ SearchNeverResponds

Next == PageNext \/ ServiceNext

Spec == Init /\ [][Next]_vars

\* ---------------------------------------------------------------- flower page and classifier

\* the frozen label list, in the order of the model's outputs
CLASS_NAMES == <<"daisy", "dandelion", "roses", "sunflowers", "tulips">>

\* 8-bit channel values of a decoded pixel
PixelValues == {0, 128, 255}

\* tensor values are fixed-point numbers counted in 1/(255*255), so that one
\* and two divisions by 255 of a channel value are exact
ToFloat(p) == p * RescaleDivisor * RescaleDivisor

\* the manual rescale of the decoder and the Rescaling(1./255) layer
Rescale(x) == x \div RescaleDivisor

\* decode rescaling whatever the model does itself
decode_always(p, hasRescaling) == Rescale(ToFloat(p))

\* decode: floating-point channel values, divided by 255 unless the model
\* already includes the rescaling
decode(p, hasRescaling) ==
    IF hasRescaling THEN ToFloat(p) ELSE Rescale(ToFloat(p))

\* the value inference runs on: the model's own preprocessing comes first
modelInput(x, hasRescaling) ==
    IF hasRescaling THEN Rescale(x) ELSE x

\* the positive weights (exponentials of the logits) of the output layer
Weights == [1..Len(CLASS_NAMES) -> 1..MaxWeight]

RECURSIVE SumSeq(_)
SumSeq(s) == IF s = <<>> THEN 0 ELSE Head(s) + SumSeq(Tail(s))

\* the largest entry of a non-empty sequence of numbers
MaxSeq(s) == CHOOSE m \in Range(s) : \A x \in Range(s) : x <= m

\* softmax normalising by the largest weight
softmax_byMax(w) == [i \in 1..Len(w) |-> <<w[i], MaxSeq(w)>>]

\* softmax: every weight over the sum of the weights; a probability is the
\* fraction <<numerator, denominator>>
softmax(w) == [i \in 1..Len(w) |-> <<w[i], SumSeq(w)>>]

\* numerators of a probability vector (the denominators are equal)
Nums(ps) == [i \in 1..Len(ps) |-> ps[i][1]]

\* argmax taking the last of equal maxima
argmax_last(ps) ==
    CHOOSE i \in 1..Len(ps) :
        /\ ps[i][1] = MaxSeq(Nums(ps))
        /\ \A j \in (i + 1)..Len(ps) : ps[j][1] # MaxSeq(Nums(ps))

\* argmax: the first index holding the maximum
argmax(ps) ==
    CHOOSE i \in 1..Len(ps) :
        /\ ps[i][1] = MaxSeq(Nums(ps))
        /\ \A j \in 1..(i - 1) : ps[j][1] # MaxSeq(Nums(ps))

\* the FlowerPrediction answered for a probability vector
FlowerPrediction(ps) ==
    [prediction    |-> CLASS_NAMES[argmax(ps)],
     confidence    |-> ps[argmax(ps)],
     probabilities |-> [i \in 1..Len(ps) |-> [label |-> CLASS_NAMES[i], p |-> ps[i]]]]

\* typeof obj[k] === 'number': the property is there and holds a fraction
HasNumber(obj, k) == k \in DOMAIN obj /\ obj[k] \in Nat \X Nat

FlowerInit ==
    /\ DiseaseInit
    /\ FlowerStart
    /\ ConcStart

\* a file is chosen in the (enabled) file input and its reader finishes
Flower_handleFileChange ==
    /\ ~flowerPending
    /\ \E f \in Files :
        /\ flowerFile' = f
        /\ flowerPreview' = f
    /\ state' = initialState
    /\ UNCHANGED <<flowerPending, flowerFetch, flowerServiceVars>>
    /\ UNCHANGED <<diseaseVars, concVars>>

\* a file with an image type is dropped: the change event runs
\* handleFileChange, also while a request is pending
Flower_handleDrop ==
    /\ \E f \in Files :
        /\ flowerFile' = f
        /\ flowerPreview' = f
    /\ state' = initialState
    /\ UNCHANGED <<flowerPending, flowerFetch, flowerServiceVars>>
    /\ UNCHANGED <<diseaseVars, concVars>>

\* the remove button, shown on the preview while no request is pending
Flower_handleRemoveImage ==
    /\ flowerPreview # NoFile /\ ~flowerPending
    /\ flowerPreview' = NoFile
    /\ flowerFile' = NoFile
    /\ state' = initialState
    /\ UNCHANGED <<flowerPending, flowerFetch, flowerServiceVars>>
    /\ UNCHANGED <<diseaseVars, concVars>>

\* handleSubmit, rejected by the client-side check
Flower_handleSubmitNoImage ==
    /\ flowerPreview # NoFile /\ ~flowerPending
    /\ flowerFile \in {NoFile, "empty"}
    /\ state' = [prediction |-> NULL, confidence |-> NULL,
                 error |-> "Please select an image to upload."]
    /\ UNCHANGED <<flowerPending, flowerPreview, flowerFile, flowerFetch, flowerServiceVars>>
    /\ UNCHANGED <<diseaseVars, concVars>>

\* handleSubmit up to the fetch of /predict
Flower_handleSubmit ==
    /\ flowerPreview # NoFile /\ ~flowerPending
    /\ flowerFile \notin {NoFile, "empty"}
    /\ flowerPending' = TRUE
    /\ state' = initialState
    /\ flowerFetch' = "inflight"
    /\ predictRequest' = flowerFile
    /\ predictPc' = "received"
    /\ pixel' = 0
    /\ inferenceInput' = 0
    /\ probabilities' = <<>>
    /\ predictResponse' = NoResponse
    /\ UNCHANGED <<flowerPreview, flowerFile, modelHasRescaling>>
    /\ UNCHANGED <<diseaseVars, concVars>>

\* classifyFlower: decode, then classify; bytes that are no image fail with
\* a DecodeError, an inference that fails with an InferenceError
classifyFlower ==
    /\ predictPc = "received"
    /\ IF predictRequest \notin Decodable
       THEN /\ predictResponse' = [status |-> 400, body |-> [detail |-> "Invalid image file."]]
            /\ UNCHANGED <<pixel, inferenceInput, probabilities>>
       ELSE \E p \in PixelValues :
            /\ pixel' = p
            /\ inferenceInput' = modelInput(decode(p, modelHasRescaling), modelHasRescaling)
            /\ \/ \E w \in Weights :
                    /\ probabilities' = softmax(w)
                    /\ predictResponse' =
                           [status |-> 200, body |-> FlowerPrediction(softmax(w))]
               \/ /\ probabilities' = <<>>
                  /\ predictResponse' =
                         [status |-> 500, body |-> [detail |-> "Prediction failed."]]
    /\ predictPc' = "done"
    /\ UNCHANGED <<state, flowerPending, flowerPreview, flowerFile, flowerFetch,
                   predictRequest, modelHasRescaling>>
    /\ UNCHANGED <<diseaseVars, concVars>>

\* the response of /predict is read: rest of handleSubmit
Flower_fetchResolves ==
    /\ flowerFetch = "inflight"
    /\ predictPc = "done"
    /\ IF predictResponse.status # 200
       THEN state' = [prediction |-> NULL, confidence |-> NULL,
                      error |-> IF Truthy(Get(predictResponse.body, "detail"))
                                THEN predictResponse.body["detail"]
                                ELSE "Failed to get prediction from server."]
       ELSE IF \/ ~Truthy(Get(predictResponse.body, "prediction"))
               \/ ~HasNumber(predictResponse.body, "confidence")
       THEN state' = [prediction |-> NULL, confidence |-> NULL,
                      error |-> "Invalid response from prediction API."]
       ELSE state' = [prediction |-> predictResponse.body["prediction"],
                      confidence |-> predictResponse.body["confidence"],
                      error |-> NULL]
    /\ flowerPending' = FALSE
    /\ flowerFetch' = "none"
    /\ UNCHANGED <<flowerPreview, flowerFile, flowerServiceVars>>
    /\ UNCHANGED <<diseaseVars, concVars>>

\* the fetch rejects because the service cannot be reached: the catch block
\* shows the message of the exception
Flower_fetchRejects ==
    /\ flowerFetch = "inflight"
    /\ predictPc = "received"
    /\ \E m \in ExceptionMessages :
        state' = [prediction |-> NULL, confidence |-> NULL, error |-> m]
    /\ flowerPending' = FALSE
    /\ flowerFetch' = "none"
    /\ predictRequest' = NoFile
    /\ predictPc' = "idle"
    /\ UNCHANGED <<flowerPreview, flowerFile, modelHasRescaling, pixel, inferenceInput,
                   probabilities, predictResponse>>
    /\ UNCHANGED <<diseaseVars, concVars>>

FlowerNext ==
    \/ Flower_handleFileChange
    \/ Flower_handleDrop
    \/ Flower_handleRemoveImage
    \/ Flower_handleSubmitNoImage
    \/ Flower_handleSubmit
    \/ classifyFlower
    \/ Flower_fetchResolves
    \/ Flower_fetchRejects

FlowerSpec == FlowerInit /\ [][FlowerNext]_vars

\* ---------------------------------------------------------------- concurrent requests

\* the forms of the requests served at the same time
ConcRequests == {uploadFormData(f, k) : f \in Files \ {"empty"}, k \in KeyValues}

\* for the comparison with a request served alone the providers answer as
\* functions of what they are asked
HfOf(req) ==
    <<[label |-> IF req["image"] \in Decodable THEN "Tomato blight" ELSE "",
       score |-> "0.97"]>>
SearchOf(name) ==
    [present |-> TRUE,
     organic_results |-> IF name = "" THEN <<>> ELSE <<"snipA", "", "snipA">>]
EnhancedOf(req) == [k \in ReportFields |-> "gen"]

\* the responses a request can get when it is served alone
AloneOutcomes(req) ==
    {CatchResponse,
     [status |-> 200,
      body |-> Json(ResponseObject(HfOf(req)[1], HfOf(req)[1].label,
                                   parseSearchResults(SearchOf(HfOf(req)[1].label))))]}
    \cup (IF "api_key" \in DOMAIN req
          THEN {[status |-> 200, body |-> Json(NormalizeEnhanced(EnhancedOf(req)))]}
          ELSE {})

ConcInit ==
    /\ DiseaseInit
    /\ FlowerStart
    /\ modelHasRescaling = FALSE
    /\ ConcStart

\* a request arrives at the service
ConcArrive(r) ==
    /\ pcs[r] = "idle"
    /\ \E q \in ConcRequests : reqs' = [reqs EXCEPT ![r] = q]
    /\ pcs' = [pcs EXCEPT ![r] = "received"]
    /\ UNCHANGED <<usedKeys, topResults, diseaseNames, responses>>
    /\ UNCHANGED <<diseaseVars, flowerVars>>

\* the detect-disease operation on request r: with an api_key the enhanced
\* provider is called with that key
ConcDetectDisease(r) ==
    /\ pcs[r] = "received"
    /\ IF "api_key" \in DOMAIN reqs[r]
       THEN /\ usedKeys' = [usedKeys EXCEPT ![r] = reqs[r]["api_key"]]
            /\ pcs' = [pcs EXCEPT ![r] = "enhanced"]
       ELSE /\ pcs' = [pcs EXCEPT ![r] = "free"]
            /\ UNCHANGED usedKeys
    /\ UNCHANGED <<reqs, topResults, diseaseNames, responses>>
    /\ UNCHANGED <<diseaseVars, flowerVars>>

\* the enhanced provider answers request r
ConcEnhancedReturns(r) ==
    /\ pcs[r] = "enhanced"
    /\ responses' = [responses EXCEPT
                        ![r] = [status |-> 200,
                                body |-> Json(NormalizeEnhanced(EnhancedOf(reqs[r])))]]
    /\ pcs' = [pcs EXCEPT ![r] = "done"]
    /\ UNCHANGED <<reqs, usedKeys, topResults, diseaseNames>>
    /\ UNCHANGED <<diseaseVars, flowerVars>>

\* the enhanced provider fails for request r: the free provider is next
ConcEnhancedFails(r) ==
    /\ pcs[r] = "enhanced"
    /\ pcs' = [pcs EXCEPT ![r] = "free"]
    /\ UNCHANGED <<reqs, usedKeys, topResults, diseaseNames, responses>>
    /\ UNCHANGED <<diseaseVars, flowerVars>>

\* POST for request r up to the await of hf.imageClassification
ConcPOST(r) ==
    /\ pcs[r] = "free"
    /\ IF ~Truthy(Get(reqs[r], "image"))
       THEN /\ responses' = [responses EXCEPT
                                ![r] = [status |-> 400,
                                        body |-> [error |-> "No image provided"]]]
            /\ pcs' = [pcs EXCEPT ![r] = "done"]
       ELSE /\ pcs' = [pcs EXCEPT ![r] = "hf"]
            /\ UNCHANGED responses
    /\ UNCHANGED <<reqs, usedKeys, topResults, diseaseNames>>
    /\ UNCHANGED <<diseaseVars, flowerVars>>

\* ConcHfReturns keeping diseaseName in one slot of the module for all
\* requests
ConcHfReturns_shared(r) ==
    /\ pcs[r] = "hf"
    /\ topResults' = [topResults EXCEPT ![r] = HfOf(reqs[r])[1]]
    /\ diseaseNames' = [q \in Requests |-> HfOf(reqs[r])[1].label]
    /\ pcs' = [pcs EXCEPT ![r] = "search"]
    /\ UNCHANGED <<reqs, usedKeys, responses>>
    /\ UNCHANGED <<diseaseVars, flowerVars>>

\* imageClassification resolves for request r: topResult and diseaseName
\* are locals of this call of POST
ConcHfReturns(r) ==
    /\ pcs[r] = "hf"
    /\ topResults' = [topResults EXCEPT ![r] = HfOf(reqs[r])[1]]
    /\ diseaseNames' = [diseaseNames EXCEPT ![r] = HfOf(reqs[r])[1].label]
    /\ pcs' = [pcs EXCEPT ![r] = "search"]
    /\ UNCHANGED <<reqs, usedKeys, responses>>
    /\ UNCHANGED <<diseaseVars, flowerVars>>

\* a provider call of request r rejects: catch block of POST
ConcThrows(r) ==
    /\ pcs[r] \in {"hf", "search"}
    /\ responses' = [responses EXCEPT ![r] = CatchResponse]
    /\ pcs' = [pcs EXCEPT ![r] = "done"]
    /\ UNCHANGED <<reqs, usedKeys, topResults, diseaseNames>>
    /\ UNCHANGED <<diseaseVars, flowerVars>>

\* google_web_search resolves for request r: parse, build the response
ConcSearchReturns(r) ==
    /\ pcs[r] = "search"
    /\ responses' = [responses EXCEPT
                        ![r] = [status |-> 200,
                                body |-> Json(ResponseObject(topResults[r], diseaseNames[r],
                                         parseSearchResults(SearchOf(diseaseNames[r]))))]]
    /\ pcs' = [pcs EXCEPT ![r] = "done"]
    /\ UNCHANGED <<reqs, usedKeys, topResults, diseaseNames>>
    /\ UNCHANGED <<diseaseVars, flowerVars>>

ConcNext ==
    \/ \E r \in Requests : ConcArrive(r)
    \/ \E r \in Requests : ConcDetectDisease(r)
    \/ \E r \in Requests : ConcEnhancedReturns(r)
    \/ \E r \in Requests : ConcEnhancedFails(r)
    \/ \E r \in Requests : ConcPOST(r)
    \/ \E r \in Requests : ConcHfReturns(r)
    \/ \E r \in Requests : ConcThrows(r)
    \/ \E r \in Requests : ConcSearchReturns(r)

ConcSpec == ConcInit /\ [][ConcNext]_vars

\* ---------------------------------------------------------------- properties

HasCredential == "api_key" \in DOMAIN request
\* the ways the enhanced provider can fail by itself
ProviderFailures == {"network", "malformed", "timeout", "invalid_credential"}
\* a key of blanks only (the empty key included)
Blank(k) == \A i \in DOMAIN k : k[i] = " "
\* the free provider was called
FreeCalled == "hf" \in Range(calls) \/ "search" \in Range(calls)
\* the request has ended and both calls of the free provider returned
FreeReturned == pc = "done" /\ "search" \in Range(calls) /\ caught = "none"
\* ... and its top result names a disease
FreeSucceeded == FreeReturned /\ classificationResult[1].label \notin {"", UNDEF}
\* a body that is a complete report
CompleteReport(body) == \A f \in ReportFields : f \in DOMAIN body /\ body[f] \notin {"", UNDEF, NULL}

\* C1: a request with a credential whose enhanced attempt failed (network,
\* malformed answer, timeout, invalid credential) does not end before the free
\* provider was tried, and if the free provider succeeds the response is a
\* complete report made of the free provider's name and snippets, without an
\* error.
C1_FallbackToFree ==
    (pc = "done" /\ HasCredential /\ enhancedOutcome \in ProviderFailures) =>
        /\ "hf" \in Range(calls)
        /\ FreeSucceeded =>
            /\ response.status = 200
            /\ "error" \notin DOMAIN response.body
            /\ CompleteReport(response.body)
            /\ response.body["diseaseName"] = classificationResult[1].label
            /\ source = "free"

C1_Witness ==
    /\ pc = "done" /\ HasCredential /\ enhancedOutcome = "timeout"
    /\ FreeSucceeded /\ response.status = 200

\* C2: when the free provider fails (the enhanced one having failed before or
\* not been tried) the response is the generic error alone: no report field,
\* in particular not the name the classification had already given.
C2_AllFailedNoPartial ==
    (pc = "done" /\ caught # "none") =>
        /\ response.status = 500
        /\ DOMAIN response.body = {"error"}
        /\ response.body["error"] = "Something went wrong"
        /\ source = "none"
        /\ enhancedOutcome # "ok"

C2_Witness ==
    /\ pc = "done" /\ caught = "SearchError" /\ diseaseName = "Tomato blight"
    /\ HasCredential /\ enhancedOutcome = "network"

\* C3: with a credential the first provider call is the enhanced one, and when
\* it succeeds the response is its normalized output and no free provider call
\* is made.
C3_EnhancedFirst ==
    /\ (HasCredential /\ calls # <<>>) => calls[1] = "enhanced"
    /\ (HasCredential /\ pc \notin {"idle", "received"}) => calls # <<>>
    /\ enhancedOutcome = "ok" =>
        /\ pc = "done" /\ calls = <<"enhanced">>
        /\ source = "enhanced"
        /\ response.status = 200
        /\ response.body["diseaseName"] = enhancedOutput["diseaseName"]
        /\ \A f \in ReportFields \ {"diseaseName"} :
              response.body[f] = IF enhancedOutput[f] \in {UNDEF, ""} THEN "N/A"
                                 ELSE enhancedOutput[f]

C3_Witness ==
    /\ HasCredential /\ enhancedOutcome = "ok" /\ pc = "done"
    /\ response.body["causes"] = "gen" /\ response.body["solutions"] = "N/A"

\* C4: a request without api_key never calls the enhanced provider and its
\* report is the free provider's; the request of a page whose key field is
\* empty or blank has no api_key.
C4_NoCredentialFreeOnly ==
    /\ ~HasCredential =>
        /\ "enhanced" \notin Range(calls)
        /\ enhancedOutcome = "none"
        /\ source # "enhanced"
    /\ (fetchState = "inflight" /\ Blank(geminiKey)) => ~HasCredential

C4_Witness ==
    /\ fetchState = "inflight" /\ geminiKey = <<" ">>
    /\ pc = "done" /\ response.status = 200 /\ source = "free"

\* C5: a request that has not ended can always go on: each provider call it
\* waits for is ended by an answer, a failure or the expiry of its timeout, so
\* that no request waits for ever.
C5_NoUnboundedWait ==
    pc \notin {"idle", "done"} => ENABLED ServiceNext

\* the free provider gave no disease name: no top result, or an empty label
NoNameFromFree ==
    \/ caught = "TypeError"
    \/ classificationResult # <<>> /\ classificationResult[1].label \in {"", UNDEF}

\* C6: when the provider output has no disease name the request fails and the
\* response carries no report, whatever the snippets are.
C6_NoNameNoReport ==
    (pc = "done" /\ NoNameFromFree) =>
        /\ response.status # 200
        /\ DOMAIN response.body \cap ReportFields = {}

\* what parseSearchResults has to give for the i-th result (i from 1)
ExpectedText(i) ==
    LET o == searchResults.organic_results
    IN  IF i <= Len(o) /\ o[i] # UNDEF /\ o[i] # "" THEN o[i] ELSE "N/A"

\* C7: with a named top result and a search that returned, the response is a
\* report whatever snippets are missing: causes, precautions and solutions are
\* the first, second and third snippet, "N/A" where the result or its snippet
\* is absent or empty.
C7_PartialTextTolerated ==
    (FreeReturned /\ classificationResult[1].label # "") =>
        /\ response.status = 200
        /\ response.body["diseaseName"] = classificationResult[1].label
        /\ response.body["causes"] = ExpectedText(1)
        /\ response.body["precautions"] = ExpectedText(2)
        /\ response.body["solutions"] = ExpectedText(3)

C7_Witness ==
    /\ FreeSucceeded
    /\ searchResults.organic_results = <<"snipA", "">>
    /\ response.body["causes"] = "snipA"
    /\ response.body["precautions"] = "N/A"
    /\ response.body["solutions"] = "N/A"

\* C8: every report the service answers with has the four fields, none of
\* them empty.
C8_ReportsComplete ==
    (pc = "done" /\ response.status = 200) => CompleteReport(response.body)

\* C9: after an enhanced output that could not be normalized the chain goes
\* on with the free provider, and an error response comes only from a failure
\* of the free provider, the last one.
C9_NormalizationFallsThrough ==
    /\ enhancedOutcome = "normalization" =>
        /\ pc \in {"free", "hf", "hf_hung", "search", "search_hung", "done"}
        /\ pc = "done" => "hf" \in Range(calls)
    /\ (pc = "done" /\ response.status = 500) => (caught # "none" /\ FreeCalled)

C9_Witness ==
    /\ enhancedOutcome = "normalization" /\ pc = "done"
    /\ source = "free" /\ response.status = 200

\* C10: a successful response has the fields diseaseName, causes, precautions
\* and solutions and no other.
C10_ExactlyFourFields ==
    (pc = "done" /\ response.status = 200) => DOMAIN response.body = ReportFields

\* the messages the page words itself, none of which carries text of a
\* failing component
GenericMessages ==
    {"Please select an image to upload.",
     "Could not detect disease. Please try again later.",
     "Request timed out. Please check your connection and try again.",
     "Failed to detect plant disease.",
     "Invalid response from disease detection API."}

\* C11: the error shown to the user is always one of the fixed generic
\* messages, never text taken from an exception or a failing component.
C11_OnlyGenericMessages ==
    error # NULL => error \in GenericMessages

\* C12: a request whose image cannot be decoded is rejected before any
\* provider is called.
C12_RejectedBeforeProviders ==
    (pc # "idle" /\ request["image"] \notin Decodable) => calls = <<>>

\* the page aborted its request while a provider call was in flight and
\* the service has not answered it
Cancelled ==
    /\ cancelledInCall
    /\ pc \notin {"idle", "done"}

\* C17: once the caller's request is cancelled, the service starts no
\* further provider call for it.
C17_CancelStopsProviders ==
    [][Cancelled => Len(calls') <= Len(calls)]_vars

\* the steps that end a pending submission of the page
SubmissionEnds == fetchResolves \/ fetchAborts \/ fetchRejects

\* C18: a pending submission can always still end: the answer is being
\* delivered or the 60 s timer is armed, also while the body is read.
C18_SubmissionEnds ==
    isPending => ENABLED SubmissionEnds

\* C19: the report on display answers a request for the image on preview.
C19_ResultForPreviewedImage ==
    diseaseInfo # EmptyObj => resultFor = imagePreview

\* C20: the disease page never holds a report and an error message at once.
C20_ResultXorError ==
    ~(diseaseInfo # EmptyObj /\ error # NULL)

\* the position of a label in the frozen label list
LabelIndex(l) == CHOOSE i \in 1..Len(CLASS_NAMES) : CLASS_NAMES[i] = l

\* C13: the confidence of a classification result is the largest of its
\* probabilities and the prediction is the first label, in the frozen order,
\* that holds this largest probability.
C13_ConfidenceMaxPredictionArgmax ==
    state.prediction # NULL =>
        /\ state.prediction \in Range(CLASS_NAMES)
        /\ state.confidence = probabilities[LabelIndex(state.prediction)]
        /\ \A j \in 1..Len(probabilities) : probabilities[j][1] <= state.confidence[1]
        /\ \A j \in 1..(LabelIndex(state.prediction) - 1) :
               probabilities[j][1] < state.confidence[1]

\* a result on display whose largest probability is held by two labels
C13_Witness ==
    /\ state.prediction = "dandelion"
    /\ probabilities[2] = probabilities[4]
    /\ probabilities[1][1] < probabilities[2][1]

\* C14: a successful answer of classifyFlower has one probability per label,
\* in the frozen order of the labels, each between 0 and 1, and all together
\* summing to 1.
C14_ProbabilityVector ==
    (predictPc = "done" /\ predictResponse.status = 200) =>
        LET ps == predictResponse.body["probabilities"]
        IN  /\ [i \in 1..Len(ps) |-> ps[i].label] = CLASS_NAMES
            /\ \A i \in 1..Len(ps) : ps[i].p[1] >= 0 /\ ps[i].p[1] <= ps[i].p[2]
            /\ \A i \in 1..Len(ps) : ps[i].p[2] = ps[1].p[2]
            /\ SumSeq([i \in 1..Len(ps) |-> ps[i].p[1]]) = ps[1].p[2]

\* a successful answer whose probabilities are not all equal
C14_Witness ==
    /\ predictPc = "done" /\ predictResponse.status = 200
    /\ predictResponse.body["probabilities"][1].p # predictResponse.body["probabilities"][5].p

\* C15: the value inference runs on is the channel value divided by 255
\* exactly once, whether or not the model rescales by itself.
C15_RescaledOnce ==
    (predictPc = "done" /\ predictResponse.status = 200) =>
        inferenceInput * RescaleDivisor = ToFloat(pixel)

\* a classification by a model that rescales by itself
C15_Witness ==
    /\ predictPc = "done" /\ predictResponse.status = 200
    /\ modelHasRescaling
    /\ pixel = 255

\* C16: a request served next to others gets a response it can get when
\* served alone, and the credential used for its enhanced call is its own.
C16_RequestsIsolated ==
    \A r \in Requests :
        /\ pcs[r] = "done" => responses[r] \in AloneOutcomes(reqs[r])
        /\ usedKeys[r] # NoKey =>
               /\ "api_key" \in DOMAIN reqs[r]
               /\ usedKeys[r] = reqs[r]["api_key"]

\* two requests with different images, one of them with a credential, both
\* answered with a report
C16_Witness ==
    /\ pcs[1] = "done" /\ pcs[2] = "done"
    /\ reqs[1]["image"] # reqs[2]["image"]
    /\ "api_key" \in DOMAIN reqs[1] /\ "api_key" \notin DOMAIN reqs[2]
    /\ responses[1].status = 200 /\ responses[2].status = 200
    /\ "identificationConfidence" \in DOMAIN responses[1].body

\* the text of the Mode badge of the result card: a non-empty key is truthy
ModeBadge == IF geminiKey # <<>> THEN "Enhanced AI" ELSE "Free API"

\* C22: while a result is displayed the Mode badge reads 'Enhanced AI'
\* exactly when the request that produced the result sent the api_key field.
C22_BadgeMatchesRequest ==
    diseaseInfo # EmptyObj => (ModeBadge = "Enhanced AI" <=> resultSentKey)

\* a step of handleSubmit that sends a request
RequestStarts ==
    /\ fetchState' = "inflight"
    /\ pc' = "received"
    /\ fetchState # "inflight" \/ pc # "received"

\* C21: the disease page has at most one request in flight: a request is
\* sent only while isPending is false and no fetch is outstanding, isPending
\* is true exactly while a fetch is outstanding, and it becomes false only
\* in the step that ends the outstanding fetch.
C21_OneRequestInFlight ==
    [][/\ RequestStarts => (~isPending /\ fetchState = "none")
       /\ (isPending /\ ~isPending') => (fetchState # "none" /\ fetchState' = "none")
       /\ isPending' <=> (fetchState' # "none")]_vars

\* a request is pending at the classifier while the form holds a file that
\* could be submitted
C21_Witness ==
    /\ isPending /\ fetchState = "inflight" /\ pc = "hf"
    /\ imagePreview # NoFile
    /\ fileInput \notin {NoFile, "empty"}

\* C21 on the flower page: a request is sent only while isPending is false,
\* isPending is true exactly while the fetch is outstanding and becomes false
\* only in the step that ends it.
C21_FlowerOneRequestInFlight ==
    [][/\ (flowerFetch' = "inflight" /\ flowerFetch # "inflight") => ~flowerPending
       /\ (flowerPending /\ ~flowerPending') => (flowerFetch = "inflight" /\ flowerFetch' = "none")
       /\ flowerPending' <=> (flowerFetch' = "inflight")]_vars

====
